---------------------------- MODULE Spec2Model ----------------------------
(***************************************************************************)
(* Model of scripts/data_collection.py: the date-range calculator          *)
(* (get_date_range), the scene selector (select_best_item) and the batch   *)
(* driver (main).                                                          *)
(*                                                                         *)
(* Text is a sequence of one-character strings, so that formatting and     *)
(* parsing are computed character by character.  Coordinates are integers  *)
(* in micro-degrees (the source's floats with six decimals).  A calendar   *)
(* value is a record [year, month, day, hour]; a pandas Timestamp at       *)
(* midnight is the number of days since 1970-01-01.                        *)
(***************************************************************************)
EXTENDS Integers, Sequences, FiniteSets

VARIABLES
    \* get_date_range(date, time_buffer_days): one call
    d_pc, d_date, d_days, d_result,
    \* select_best_item(items, date, latitude, longitude): one call
    s_pc, s_items, s_date, s_latitude, s_longitude, s_result,
    \* main(): the loop over d_metadata.iterrows()
    pc, row, date_range, items, best_item, item_platform, item_date,
    image_array, files,
    \* history of the run: what each catalog search made found, the row in
    \* which the selection was last assigned, the rows whose write failed
    searched, selected_at, unwritten

date_vars == <<d_pc, d_date, d_days, d_result>>
select_vars == <<s_pc, s_items, s_date, s_latitude, s_longitude, s_result>>
main_vars == <<pc, row, date_range, items, best_item, item_platform,
               item_date, image_array, files, searched, selected_at, unwritten>>
vars == <<date_vars, select_vars, main_vars>>

-----------------------------------------------------------------------------
(* Bounds of the model. *)

\* get_date_range is called with every window 0..MaxWindow
MaxWindow == 31
\* select_best_item is called with every candidate list of at most MaxItems
MaxItems == 3
\* a catalog search of the driver returns at most MaxFound items
MaxFound == 1

-----------------------------------------------------------------------------
(* Characters, str.lower and str.contains *)

Digits == <<"0", "1", "2", "3", "4", "5", "6", "7", "8", "9">>

DigitChar(n) == Digits[n + 1]

DigitVal(c) == CHOOSE n \in 0..9 : Digits[n + 1] = c

Str_sentinel == <<"s", "e", "n", "t", "i", "n", "e", "l">>

UpperChars ==
    <<"A", "B", "C", "D", "E", "F", "G", "H", "I", "J", "K", "L", "M",
      "N", "O", "P", "Q", "R", "S", "T", "U", "V", "W", "X", "Y", "Z">>
LowerChars ==
    <<"a", "b", "c", "d", "e", "f", "g", "h", "i", "j", "k", "l", "m",
      "n", "o", "p", "q", "r", "s", "t", "u", "v", "w", "x", "y", "z">>

lower_char(c) ==
    IF \E k \in 1..Len(UpperChars) : UpperChars[k] = c
    THEN LowerChars[CHOOSE k \in 1..Len(UpperChars) : UpperChars[k] = c]
    ELSE c

lower(s) == [k \in 1..Len(s) |-> lower_char(s[k])]

contains(s, sub) ==
    \E k \in 0..(Len(s) - Len(sub)) :
        \A j \in 1..Len(sub) : s[k + j] = sub[j]

-----------------------------------------------------------------------------
(* Calendar arithmetic of pandas Timestamps *)

is_leapyear(year) ==
    (year % 4 = 0) /\ ((year % 100 /= 0) \/ (year % 400 = 0))

days_per_month_table(leap) ==
    IF leap THEN <<31, 29, 31, 30, 31, 30, 31, 31, 30, 31, 30, 31>>
            ELSE <<31, 28, 31, 30, 31, 30, 31, 31, 30, 31, 30, 31>>

RECURSIVE SumFirst(_, _)
SumFirst(s, n) == IF n = 0 THEN 0 ELSE s[n] + SumFirst(s, n - 1)

\* civil date -> days since 1970-01-01, for the years from 1970 on
get_datetimestruct_days(year, month, day) ==
    LET y0 == year - 1970
        y1 == y0 + 1
        y2 == y1 + 68
        y3 == y2 + 300
        days == y0 * 365 + (y1 \div 4) - (y2 \div 100) + (y3 \div 400)
    IN  days + SumFirst(days_per_month_table(is_leapyear(year)), month - 1)
             + (day - 1)

\* days since 1970-01-01 -> <<year, day within the year>>; the division
\* rounds down, as the library's separate branch for the days before 2000 does
days_to_yearsdays(days_) ==
    LET days_per_400years == 400 * 365 + 100 - 4 + 1
        d0 == days_ - (365 * 30 + 7)
        y0 == 400 * (d0 \div days_per_400years)
        d1 == d0 % days_per_400years
    IN  IF d1 >= 366
        THEN LET y1 == y0 + 100 * ((d1 - 1) \div (100 * 365 + 25 - 1))
                 d2 == (d1 - 1) % (100 * 365 + 25 - 1)
             IN  IF d2 >= 365
                 THEN LET y2 == y1 + 4 * ((d2 + 1) \div (4 * 365 + 1))
                          d3 == (d2 + 1) % (4 * 365 + 1)
                      IN  IF d3 >= 366
                          THEN <<y2 + (d3 - 1) \div 365 + 2000, (d3 - 1) % 365>>
                          ELSE <<y2 + 2000, d3>>
                 ELSE <<y1 + 2000, d2>>
        ELSE <<y0 + 2000, d1>>

RECURSIVE month_of_yearday(_, _, _)
month_of_yearday(lengths, m, d) ==
    IF d < lengths[m] THEN <<m, d + 1>>
    ELSE month_of_yearday(lengths, m + 1, d - lengths[m])

\* days since 1970-01-01 -> civil date at midnight
set_datetimestruct_days(days) ==
    LET yd == days_to_yearsdays(days)
        md == month_of_yearday(days_per_month_table(is_leapyear(yd[1])), 1, yd[2])
    IN  [year |-> yd[1], month |-> md[1], day |-> md[2], hour |-> 0]

-----------------------------------------------------------------------------
(* strftime and pd.to_datetime *)

zero_pad2(n) == <<DigitChar(n \div 10), DigitChar(n % 10)>>

zero_pad4(n) ==
    <<DigitChar(n \div 1000), DigitChar((n \div 100) % 10),
      DigitChar((n \div 10) % 10), DigitChar(n % 10)>>

\* the two format strings of the program
Fmt_range == <<"%", "Y", "-", "%", "m", "-", "%", "d", "T">>
Fmt_item == <<"%", "Y", "-", "%", "m", "-", "%", "d">>

RECURSIVE strftime(_, _)
strftime(t, fmt) ==
    IF fmt = <<>> THEN <<>>
    ELSE IF Head(fmt) = "%" /\ Len(fmt) >= 2
         THEN (CASE fmt[2] = "Y" -> zero_pad4(t.year)
                 [] fmt[2] = "m" -> zero_pad2(t.month)
                 [] fmt[2] = "d" -> zero_pad2(t.day)
                 [] fmt[2] = "H" -> zero_pad2(t.hour)
                 [] OTHER -> <<fmt[1], fmt[2]>>)
              \o strftime(t, SubSeq(fmt, 3, Len(fmt)))
         ELSE <<Head(fmt)>> \o strftime(t, Tail(fmt))

RECURSIVE parse_int(_)
parse_int(s) ==
    IF s = <<>> THEN 0
    ELSE 10 * parse_int(SubSeq(s, 1, Len(s) - 1)) + DigitVal(s[Len(s)])

\* pd.to_datetime of a "YYYY-MM-DD" string: the Timestamp, as days since the epoch
to_datetime(s) ==
    get_datetimestruct_days(parse_int(SubSeq(s, 1, 4)),
                            parse_int(SubSeq(s, 6, 7)),
                            parse_int(SubSeq(s, 9, 10)))

\* Timestamp.strftime
timestamp_strftime(ts, fmt) == strftime(set_datetimestruct_days(ts), fmt)

-----------------------------------------------------------------------------
(* get_date_range *)

\* a range that looks forward instead of back
range_start_forward(date, time_buffer_days) == to_datetime(date) + time_buffer_days

range_start(date, time_buffer_days) == to_datetime(date) - time_buffer_days

\* a range formatted with the plain date format
get_date_range_plain(date, time_buffer_days) ==
    timestamp_strftime(range_start(date, time_buffer_days), Fmt_item)
        \o <<"/">>
        \o timestamp_strftime(to_datetime(date), Fmt_item)

get_date_range(date, time_buffer_days) ==
    timestamp_strftime(range_start(date, time_buffer_days), Fmt_range)
        \o <<"/">>
        \o timestamp_strftime(to_datetime(date), Fmt_range)

-----------------------------------------------------------------------------
(* Python values: a value carries its type, as the driver reads attributes *)
(* of whatever select_best_item returned.                                  *)

NaN == [type |-> "float", val |-> <<"n", "a", "n">>]

StrValue(s) == [type |-> "str", val |-> s]

ItemValue(item) == [type |-> "Item", val |-> item]

Unbound == [type |-> "unbound", val |-> <<>>]

\* what a call gave: the value it returned, or the exception it raised
Returned(v) == [raised |-> "", value |-> v]

Raised(e) == [raised |-> e, value |-> <<>>]

-----------------------------------------------------------------------------
(* DataFrame.sort_values(by=..., ascending=True) with the default          *)
(* kind="quicksort": numpy's argsort of the key column, an introsort whose *)
(* ranges of more than SMALL_QUICKSORT + 1 elements are partitioned around *)
(* a median of three and whose shorter ranges are insertion-sorted.  (Its  *)
(* heapsort fallback needs more nested partitions than twice the binary    *)
(* logarithm of the length, which no list of the lengths modelled here     *)
(* reaches.)  v is the key column, t the permutation being sorted.         *)

SMALL_QUICKSORT == 16

INTP_SWAP(t, a, b) == [t EXCEPT ![a] = t[b], ![b] = t[a]]

median_of_three(v, t, pl, pm, pr) ==
    LET t1 == IF v[t[pm]] < v[t[pl]] THEN INTP_SWAP(t, pm, pl) ELSE t
        t2 == IF v[t1[pr]] < v[t1[pm]] THEN INTP_SWAP(t1, pr, pm) ELSE t1
    IN  IF v[t2[pm]] < v[t2[pl]] THEN INTP_SWAP(t2, pm, pl) ELSE t2

RECURSIVE scan_up(_, _, _, _)
scan_up(v, t, pi, vp) ==
    IF v[t[pi + 1]] < vp THEN scan_up(v, t, pi + 1, vp) ELSE pi + 1

RECURSIVE scan_down(_, _, _, _)
scan_down(v, t, pj, vp) ==
    IF vp < v[t[pj - 1]] THEN scan_down(v, t, pj - 1, vp) ELSE pj - 1

\* the partition loop: <<permutation, pi>> when the scans have crossed
RECURSIVE partition_loop(_, _, _, _, _)
partition_loop(v, t, pi, pj, vp) ==
    LET ni == scan_up(v, t, pi, vp)
        nj == scan_down(v, t, pj, vp)
    IN  IF ni >= nj THEN <<t, ni>>
        ELSE partition_loop(v, INTP_SWAP(t, ni, nj), ni, nj, vp)

\* one element moved down into the sorted range pl..pi-1
RECURSIVE insert_down(_, _, _, _, _)
insert_down(v, t, pl, pj, vi) ==
    IF pj > pl /\ v[vi] < v[t[pj - 1]]
    THEN insert_down(v, [t EXCEPT ![pj] = t[pj - 1]], pl, pj - 1, vi)
    ELSE [t EXCEPT ![pj] = vi]

RECURSIVE insertion_sort(_, _, _, _, _)
insertion_sort(v, t, pl, pr, pi) ==
    IF pi > pr THEN t
    ELSE insertion_sort(v, insert_down(v, t, pl, pi, t[pi]), pl, pr, pi + 1)

RECURSIVE aquicksort(_, _, _, _)
aquicksort(v, t, pl, pr) ==
    IF pr - pl > SMALL_QUICKSORT
    THEN LET pm == pl + ((pr - pl) \div 2)
             t1 == median_of_three(v, t, pl, pm, pr)
             vp == v[t1[pm]]
             t2 == INTP_SWAP(t1, pm, pr - 1)
             lp == partition_loop(v, t2, pl, pr - 1, vp)
             pi == lp[2]
             t3 == INTP_SWAP(lp[1], pi, pr - 1)
         IN  aquicksort(v, aquicksort(v, t3, pl, pi - 1), pi + 1, pr)
    ELSE insertion_sort(v, t, pl, pr, pl + 1)

\* the positions of v in ascending order of their values
argsort(v) == aquicksort(v, [k \in 1..Len(v) |-> k], 1, Len(v))

\* the rows in ascending order of time_diff
sort_values_by_time_diff(rows) ==
    LET order == argsort([k \in 1..Len(rows) |-> rows[k].time_diff])
    IN  [k \in 1..Len(rows) |-> rows[order[k]]]

-----------------------------------------------------------------------------
(* select_best_item *)

\* one row of item_details per item
item_details_row(item) ==
    [datetime |-> strftime(item.datetime, Fmt_item),
     platform |-> item.platform,
     min_long |-> item.bbox[1],
     max_long |-> item.bbox[3],
     min_lat |-> item.bbox[2],
     max_lat |-> item.bbox[4],
     item_obj |-> item]

\* a footprint test that lets the southern edge in
contains_sample_point_closed(r, latitude, longitude) ==
    /\ r.min_lat <= latitude
    /\ r.max_lat > latitude
    /\ r.min_long < longitude
    /\ r.max_long > longitude

contains_sample_point(r, latitude, longitude) ==
    /\ r.min_lat < latitude
    /\ r.max_lat > latitude
    /\ r.min_long < longitude
    /\ r.max_long > longitude

\* days from the item's date to the sample's date
time_diff(date, r) == to_datetime(date) - to_datetime(r.datetime)

\* a platform test that forgets to lower the name
sentinel_case_sensitive(r) == contains(r.platform, Str_sentinel)

sentinel(r) == contains(lower(r.platform), Str_sentinel)

select_best_item(its, date, latitude, longitude) ==
    IF its = <<>>
    THEN \* a DataFrame of no rows has no columns: item_details.min_lat
         Raised("AttributeError")
    ELSE
    LET item_details == [k \in 1..Len(its) |-> item_details_row(its[k])]
        InBox(r) == contains_sample_point(r, latitude, longitude)
        containing == SelectSeq(item_details, InBox)
    IN  IF Len(containing) = 0
        THEN Returned(<<NaN, NaN, NaN>>)
        ELSE
        LET timed == [k \in 1..Len(containing) |->
                        [time_diff |-> time_diff(date, containing[k]),
                         row |-> containing[k]]]
            IsSentinel(x) == sentinel(x.row)
            preferred == IF \E k \in 1..Len(timed) : IsSentinel(timed[k])
                         THEN SelectSeq(timed, IsSentinel)
                         ELSE timed
            best_row == sort_values_by_time_diff(preferred)[1].row
        IN  Returned(<<ItemValue(best_row.item_obj),
                       StrValue(best_row.platform),
                       StrValue(best_row.datetime)>>)

-----------------------------------------------------------------------------
(* Values of the variables of the operations that are not running *)

NotCalled == "not called"

DateIdle ==
    /\ d_pc = NotCalled /\ d_date = <<>> /\ d_days = 0 /\ d_result = <<>>

SelectIdle ==
    /\ s_pc = NotCalled /\ s_items = <<>> /\ s_date = <<>>
    /\ s_latitude = 0 /\ s_longitude = 0 /\ s_result = <<>>

MainIdle ==
    /\ pc = NotCalled /\ row = 0 /\ date_range = <<>> /\ items = <<>>
    /\ best_item = <<>> /\ item_platform = <<>> /\ item_date = <<>>
    /\ image_array = <<>> /\ files = <<>> /\ searched = <<>>
    /\ selected_at = 0 /\ unwritten = {}

-----------------------------------------------------------------------------
(* Calls of get_date_range *)

\* the years of the dates get_date_range is called with: a leap year
\* divisible by 400, a common year, a leap year, a common year divisible by 100
DateYears == {2000, 2022, 2024, 2100}

IsoText(y, m, d) ==
    <<Digits[(y \div 1000) + 1], Digits[((y \div 100) % 10) + 1],
      Digits[((y \div 10) % 10) + 1], Digits[(y % 10) + 1], "-",
      Digits[(m \div 10) + 1], Digits[(m % 10) + 1], "-",
      Digits[(d \div 10) + 1], Digits[(d % 10) + 1]>>

GregorianMonthLength(y, m) ==
    CASE m \in {4, 6, 9, 11} -> 30
      [] m = 2 -> IF y % 400 = 0 THEN 29
                  ELSE IF y % 100 = 0 THEN 28
                  ELSE IF y % 4 = 0 THEN 29 ELSE 28
      [] OTHER -> 31

DateInputs ==
    UNION {{IsoText(y, m, d) : d \in 1..GregorianMonthLength(y, m)} :
           y \in DateYears, m \in 1..12}

DateInit ==
    /\ d_pc = "call"
    /\ d_date \in DateInputs
    /\ d_days \in 0..MaxWindow
    /\ d_result = <<>>
    /\ SelectIdle /\ MainIdle

DateCall ==
    /\ d_pc = "call"
    /\ d_result' = get_date_range(d_date, d_days)
    /\ d_pc' = "done"
    /\ UNCHANGED <<d_date, d_days, select_vars, main_vars>>

DateNext == DateCall

SpecDate == DateInit /\ [][DateNext]_vars

-----------------------------------------------------------------------------
(* Calls of select_best_item *)

\* the sample date the driver gives every location
SampleDate == <<"2", "0", "2", "2", "-", "0", "8", "-", "3", "1">>

\* acquisition times: two days before the sample date, on it, and the day after
ItemTimes ==
    {[year |-> 2022, month |-> 8, day |-> 29, hour |-> 3],
     [year |-> 2022, month |-> 8, day |-> 31, hour |-> 2],
     [year |-> 2022, month |-> 9, day |-> 1, hour |-> 14]}

Platform_Sentinel2A == <<"S", "e", "n", "t", "i", "n", "e", "l", "-", "2", "A">>
Platform_landsat8 == <<"l", "a", "n", "d", "s", "a", "t", "-", "8">>

Platforms == {Platform_Sentinel2A, Platform_landsat8}

\* footprints [min_long, min_lat, max_long, max_lat]: a one-degree tile and
\* a two-degree scene around it
TileBox == <<107000000, -8000000, 108000000, -7000000>>
SceneBox == <<106500000, -8500000, 108500000, -6500000>>

Boxes == {TileBox, SceneBox}

\* sample points <<latitude, longitude>>: the first farm location, inside
\* both footprints, and the points of each edge of the tile on its
\* latitude and longitude
SelectPoints ==
    {<<-7675039, 107769191>>,
     <<-8000000, 107769191>>, <<-7000000, 107769191>>,
     <<-7675039, 107000000>>, <<-7675039, 108000000>>}

Scenes ==
    {[datetime |-> t, platform |-> p, bbox |-> b] :
        t \in ItemTimes, p \in Platforms, b \in Boxes}

\* the answer to catalog search n: each scene carries the search and its
\* position in the answer as its id
WithIds(l, n) ==
    [k \in 1..Len(l) |->
        [id |-> <<n, k>>, datetime |-> l[k].datetime,
         platform |-> l[k].platform, bbox |-> l[k].bbox]]

\* lists long enough for the sort to partition: Sentinel-2 tiles of the
\* sample date at two positions, tiles of two days before elsewhere
LongLen == SMALL_QUICKSORT + 2

LongList(a, b) ==
    WithIds([k \in 1..LongLen |->
               [datetime |->
                   IF k \in {a, b}
                   THEN [year |-> 2022, month |-> 8, day |-> 31, hour |-> 2]
                   ELSE [year |-> 2022, month |-> 8, day |-> 29, hour |-> 3],
                platform |-> Platform_Sentinel2A,
                bbox |-> TileBox]],
            0)

SelectInit ==
    /\ s_pc = "call"
    /\ s_date = SampleDate
    /\ \E p \in SelectPoints : s_latitude = p[1] /\ s_longitude = p[2]
    /\ \/ \E n \in 0..MaxItems : \E l \in [1..n -> Scenes] :
             s_items = WithIds(l, 0)
       \/ \E a \in 1..LongLen : \E b \in a..LongLen :
             s_items = LongList(a, b)
    /\ s_result = <<>>
    /\ DateIdle /\ MainIdle

SelectCall ==
    /\ s_pc = "call"
    /\ s_result' = select_best_item(s_items, s_date, s_latitude, s_longitude)
    /\ s_pc' = "done"
    /\ UNCHANGED <<s_items, s_date, s_latitude, s_longitude, date_vars, main_vars>>

SelectNext == SelectCall

SpecSelect == SelectInit /\ [][SelectNext]_vars

-----------------------------------------------------------------------------
(* main: the loop over the farm locations.  The catalog, the croppers'     *)
(* image fetch and the image write are the environment: a search answers   *)
(* with any list of at most MaxFound of the scenes around the location, a  *)
(* crop returns an image or raises, a write stores the file or reports     *)
(* failure.  The two bounding boxes go to the catalog and to the cropper   *)
(* only and are left out.                                                  *)

farm_location ==
    <<[latitude |-> -7675039, longitude |-> 107769191, island |-> "jawa"],
      [latitude |-> -7786883, longitude |-> 108155444, island |-> "jawa"],
      [latitude |-> -5552498, longitude |-> 120375194, island |-> "sulawesi"],
      [latitude |-> -5559804, longitude |-> 120376871, island |-> "sulawesi"],
      [latitude |-> -5573898, longitude |-> 120384974, island |-> "sulawesi"]>>

\* d_metadata: the locations with the sample date and the uid
d_metadata ==
    [k \in 1..Len(farm_location) |->
        [latitude |-> farm_location[k].latitude,
         longitude |-> farm_location[k].longitude,
         island |-> farm_location[k].island,
         date |-> SampleDate,
         uid |-> k - 1]]

\* the lookback window the driver asks for
DriverWindow == 30

\* the scenes the catalog may hold around a location: a Sentinel-2 tile and
\* a wider Landsat scene that hold the point, and the neighbouring
\* Sentinel-2 tile, within the search radius, that does not
ScenesAround(loc) ==
    {[datetime |-> [year |-> 2022, month |-> 8, day |-> 29, hour |-> 3],
      platform |-> Platform_Sentinel2A,
      bbox |-> <<loc.longitude - 500000, loc.latitude - 500000,
                 loc.longitude + 500000, loc.latitude + 500000>>],
     [datetime |-> [year |-> 2022, month |-> 8, day |-> 31, hour |-> 2],
      platform |-> Platform_landsat8,
      bbox |-> <<loc.longitude - 1000000, loc.latitude - 1000000,
                 loc.longitude + 1000000, loc.latitude + 1000000>>],
     [datetime |-> [year |-> 2022, month |-> 8, day |-> 30, hour |-> 3],
      platform |-> Platform_Sentinel2A,
      bbox |-> <<loc.longitude + 100000, loc.latitude - 500000,
                 loc.longitude + 1100000, loc.latitude + 500000>>]}

MainInit ==
    /\ pc = "search"
    /\ row = 1
    /\ date_range = <<>>
    /\ items = <<>>
    /\ best_item = Unbound /\ item_platform = Unbound /\ item_date = Unbound
    /\ image_array = <<>>
    /\ files = [k \in 1..Len(d_metadata) |-> <<>>]
    /\ searched = <<>>
    /\ selected_at = 0
    /\ unwritten = {}
    /\ DateIdle /\ SelectIdle

\* lines 159-177: the query, the search, and the selection when the search
\* found something
Search ==
    /\ pc = "search"
    /\ date_range' = get_date_range(d_metadata[row].date, DriverWindow)
    /\ \E n \in 0..MaxFound : \E l \in [1..n -> ScenesAround(d_metadata[row])] :
       LET found == WithIds(l, row) IN
          /\ items' = found
          /\ searched' = Append(searched,
                [found |-> Len(found),
                 qualifying |-> \E k \in 1..Len(found) :
                     contains_sample_point(item_details_row(found[k]),
                                           d_metadata[row].latitude,
                                           d_metadata[row].longitude)])
          /\ IF Len(found) = 0
             THEN UNCHANGED <<best_item, item_platform, item_date, selected_at>>
             ELSE LET r == select_best_item(found, d_metadata[row].date,
                                            d_metadata[row].latitude,
                                            d_metadata[row].longitude)
                  IN  /\ best_item' = r.value[1]
                      /\ item_platform' = r.value[2]
                      /\ item_date' = r.value[3]
                      /\ selected_at' = row
    /\ pc' = "crop"
    /\ UNCHANGED <<row, image_array, files, unwritten, date_vars, select_vars>>

\* line 181, on a name never assigned or on a float
CropRaisesOnPlatform ==
    /\ pc = "crop"
    /\ item_platform.type /= "str"
    /\ pc' = IF item_platform.type = "unbound" THEN "UnboundLocalError"
                                               ELSE "AttributeError"
    /\ UNCHANGED <<row, date_range, items, best_item, item_platform, item_date,
                   image_array, files, searched, selected_at, unwritten,
                   date_vars, select_vars>>

\* lines 179-184: the cropper of the platform returns the image of the
\* selected scene
Crop ==
    /\ pc = "crop"
    /\ item_platform.type = "str"
    /\ image_array' =
          [cropper |-> IF contains(lower(item_platform.val), Str_sentinel)
                       THEN "crop_sentinel_image" ELSE "crop_landsat_image",
           item |-> best_item.val.id,
           selected_at |-> selected_at]
    /\ pc' = "save"
    /\ UNCHANGED <<row, date_range, items, best_item, item_platform, item_date,
                   files, searched, selected_at, unwritten, date_vars, select_vars>>

\* lines 181-184: the cropper's fetch of the image fails
CropRaisesOnFetch ==
    /\ pc = "crop"
    /\ item_platform.type = "str"
    /\ pc' = "FetchError"
    /\ UNCHANGED <<row, date_range, items, best_item, item_platform, item_date,
                   image_array, files, searched, selected_at, unwritten,
                   date_vars, select_vars>>

NextRow ==
    /\ row' = row + 1
    /\ pc' = IF row = Len(d_metadata) THEN "done" ELSE "search"

\* lines 186-189: the image is written to the location's file
Save ==
    /\ pc = "save"
    /\ files' = [files EXCEPT ![row] = Append(@, image_array)]
    /\ NextRow
    /\ UNCHANGED <<date_range, items, best_item, item_platform, item_date,
                   image_array, searched, selected_at, unwritten,
                   date_vars, select_vars>>

\* line 188: cv2.imwrite reports failure by its result, which is dropped
SaveFails ==
    /\ pc = "save"
    /\ unwritten' = unwritten \cup {row}
    /\ NextRow
    /\ UNCHANGED <<date_range, items, best_item, item_platform, item_date,
                   image_array, files, searched, selected_at,
                   date_vars, select_vars>>

MainNext ==
    \/ Search
    \/ CropRaisesOnPlatform
    \/ Crop
    \/ CropRaisesOnFetch
    \/ Save
    \/ SaveFails

Spec == MainInit /\ [][MainNext]_vars

\* an exception has left the loop
MainRaised == pc \in {"UnboundLocalError", "AttributeError", "FetchError"}

-----------------------------------------------------------------------------
(* Properties of main *)

\* the rows whose pass through the loop body has ended without an exception
RowsCompleted == {l \in 1..Len(searched) : l < row}

\* C1: a location gets exactly one output file if its search found a scene
\* whose footprint strictly holds the point, and none if the search found
\* nothing or the selector reported no match.  (The first half is stated for
\* the rows that ran to their end and whose write did not fail.)
C1_OneFileIffQualifyingScene ==
    pc /= NotCalled =>
        \A l \in 1..Len(searched) :
            /\ Len(files[l]) <= 1
            /\ ~searched[l].qualifying => files[l] = <<>>
            /\ (searched[l].qualifying /\ l \in RowsCompleted /\ l \notin unwritten)
                  => Len(files[l]) = 1

\* C3: a failure in one location (no candidate scene, an image fetch that
\* fails, a write that fails) does not end the run: no exception leaves the
\* loop, and the later locations are still processed.
C3_NoExceptionLeavesTheLoop == ~MainRaised

\* C10: whenever a cropper has run and whenever a file has been written for
\* a location, the scene used was selected in that same row, from the
\* answer to that row's own search.
C10_SceneSelectedInSameRow ==
    pc /= NotCalled =>
        /\ pc = "save" => /\ image_array.selected_at = row
                          /\ image_array.item[1] = row
        /\ \A l \in 1..Len(d_metadata) :
              \A k \in 1..Len(files[l]) :
                  /\ files[l][k].selected_at = l
                  /\ files[l][k].item[1] = l

-----------------------------------------------------------------------------
(* Properties of get_date_range *)

\* the calendar, counted one day at a time
PrevDay(c) ==
    IF c.day > 1 THEN [c EXCEPT !.day = c.day - 1]
    ELSE IF c.month > 1
         THEN [year |-> c.year, month |-> c.month - 1,
               day |-> GregorianMonthLength(c.year, c.month - 1)]
         ELSE [year |-> c.year - 1, month |-> 12, day |-> 31]

RECURSIVE DaysBefore(_, _)
DaysBefore(c, n) == IF n = 0 THEN c ELSE DaysBefore(PrevDay(c), n - 1)

\* the positions of "/" in a text
SlashPositions(r) == {k \in 1..Len(r) : r[k] = "/"}

\* the text before and after the first "/"
RangeStartText(r) ==
    LET k == CHOOSE j \in SlashPositions(r) : \A h \in SlashPositions(r) : j <= h
    IN  SubSeq(r, 1, k - 1)

RangeEndText(r) ==
    LET k == CHOOSE j \in SlashPositions(r) : \A h \in SlashPositions(r) : j <= h
    IN  SubSeq(r, k + 1, Len(r))

IsDigit(c) == \E n \in 0..9 : Digits[n + 1] = c

\* a text that starts with YYYY-MM-DD
StartsWithIsoDate(t) ==
    /\ Len(t) >= 10
    /\ \A k \in {1, 2, 3, 4, 6, 7, 9, 10} : IsDigit(t[k])
    /\ t[5] = "-" /\ t[8] = "-"

\* a text that is YYYY-MM-DD and nothing more
IsIsoDate(t) == StartsWithIsoDate(t) /\ Len(t) = 10

NumberOf(t) ==
    LET RECURSIVE val(_)
        val(k) == IF k = 0 THEN 0
                  ELSE 10 * val(k - 1)
                       + (CHOOSE n \in 0..9 : Digits[n + 1] = t[k])
    IN  val(Len(t))

\* the calendar date a text starts with
CivilOf(t) ==
    [year |-> NumberOf(SubSeq(t, 1, 4)),
     month |-> NumberOf(SubSeq(t, 6, 7)),
     day |-> NumberOf(SubSeq(t, 9, 10))]

\* C8: for every date D and window W >= 0, the range returned by
\* get_date_range(D, W) starts at the calendar date W days before D and
\* ends at D, across month and year boundaries and leap-year Februaries.
C8_RangeStartIsWindowBeforeEnd ==
    d_pc = "done" =>
        /\ SlashPositions(d_result) /= {}
        /\ StartsWithIsoDate(RangeStartText(d_result))
        /\ StartsWithIsoDate(RangeEndText(d_result))
        /\ CivilOf(RangeStartText(d_result)) = DaysBefore(CivilOf(d_date), d_days)
        /\ CivilOf(RangeEndText(d_result)) = CivilOf(d_date)

\* a call whose window reaches back from 1 March 2024 over the leap day
C8_Witness ==
    /\ d_pc = "done"
    /\ d_date = IsoText(2024, 3, 1) /\ d_days = 2
    /\ CivilOf(RangeStartText(d_result)) = [year |-> 2024, month |-> 2, day |-> 28]
    /\ CivilOf(RangeEndText(d_result)) = [year |-> 2024, month |-> 3, day |-> 1]

\* C9 as claimed: the returned text is two YYYY-MM-DD dates joined by one
\* "/", with no time designator on either side.
C9_TwoBareIsoDates ==
    d_pc = "done" =>
        /\ Cardinality(SlashPositions(d_result)) = 1
        /\ IsIsoDate(RangeStartText(d_result))
        /\ IsIsoDate(RangeEndText(d_result))

\* C9 as amended: the returned text is two YYYY-MM-DD dates, each followed
\* by the time designator "T" and no time-of-day digits, joined by one "/".
C9_TwoIsoDatesWithDesignator ==
    d_pc = "done" =>
        /\ Cardinality(SlashPositions(d_result)) = 1
        /\ \A part \in {RangeStartText(d_result), RangeEndText(d_result)} :
              /\ Len(part) = 11
              /\ IsIsoDate(SubSeq(part, 1, 10))
              /\ part[11] = "T"

C9_Witness ==
    /\ d_pc = "done"
    /\ d_date = IsoText(2022, 8, 31) /\ d_days = 30
    /\ d_result = IsoText(2022, 8, 1) \o <<"T", "/">> \o IsoText(2022, 8, 31) \o <<"T">>

-----------------------------------------------------------------------------
(* Properties of select_best_item *)

StrictlyInside(item, latitude, longitude) ==
    /\ item.bbox[2] < latitude /\ latitude < item.bbox[4]
    /\ item.bbox[1] < longitude /\ longitude < item.bbox[3]

\* a name that holds the letters of "sentinel" in either case
IsSentinelName(name) ==
    LET small == <<"s", "e", "n", "t", "i", "n", "e", "l">>
        big == <<"S", "E", "N", "T", "I", "N", "E", "L">>
    IN  \E k \in 0..(Len(name) - 8) :
            \A j \in 1..8 : name[k + j] \in {small[j], big[j]}

\* the positions of the candidates whose footprint holds the point
Containing(its, latitude, longitude) ==
    {k \in 1..Len(its) : StrictlyInside(its[k], latitude, longitude)}

\* the positions left after the containment and the Sentinel preference
Survivors(its, latitude, longitude) ==
    LET inside == Containing(its, latitude, longitude)
        sent == {k \in inside : IsSentinelName(its[k].platform)}
    IN  IF sent /= {} THEN sent ELSE inside

SameDay(a, b) == a.year = b.year /\ a.month = b.month /\ a.day = b.day

\* whole days between two calendar dates, counted on the calendar
DayDistance(a, b) ==
    CHOOSE n \in 0..40 :
        \/ SameDay(DaysBefore([year |-> a.year, month |-> a.month, day |-> a.day], n), b)
        \/ SameDay(DaysBefore([year |-> b.year, month |-> b.month, day |-> b.day], n), a)

\* a calendar date is after another
IsAfter(a, b) ==
    \/ a.year > b.year
    \/ a.year = b.year /\ a.month > b.month
    \/ a.year = b.year /\ a.month = b.month /\ a.day > b.day

SelectReturnedItem ==
    s_pc = "done" /\ s_result.raised = "" /\ s_result.value[1].type = "Item"

SelectReturnedNoMatch ==
    s_pc = "done" /\ s_result.raised = "" /\ s_result.value = <<NaN, NaN, NaN>>

ReturnedScene == s_result.value[1].val

\* C2: called with an empty list, or with a list none of whose footprints
\* holds the point, select_best_item returns the three absent values and
\* does not raise.
C2_NoMatchNeverRaises ==
    (s_pc = "done" /\ Containing(s_items, s_latitude, s_longitude) = {})
        => SelectReturnedNoMatch

\* C4: the returned candidate has the smallest absolute time distance from
\* the target date among the surviving candidates, also when some of them
\* were acquired after the target date.
C4_ReturnsClosestInTime ==
    SelectReturnedItem =>
        \A k \in Survivors(s_items, s_latitude, s_longitude) :
            DayDistance(ReturnedScene.datetime, CivilOf(s_date))
                <= DayDistance(s_items[k].datetime, CivilOf(s_date))

\* C5: if a candidate whose footprint holds the point is a Sentinel one,
\* the returned candidate is a Sentinel one, however close in time the
\* others are; another platform is returned only when no Sentinel
\* candidate holds the point.
C5_SentinelPreferred ==
    (s_pc = "done" /\ \E k \in Containing(s_items, s_latitude, s_longitude) :
                          IsSentinelName(s_items[k].platform))
        => /\ SelectReturnedItem
           /\ IsSentinelName(ReturnedScene.platform)
           /\ IsSentinelName(s_result.value[2].val)

\* a Landsat scene of the sample date and a Sentinel-2 scene of two days
\* before both hold the point: the Sentinel-2 scene is returned
C5_Witness ==
    /\ SelectReturnedItem
    /\ Len(s_items) = 2
    /\ s_items[1].platform = Platform_landsat8 /\ s_items[1].datetime.day = 31
    /\ s_items[2].platform = Platform_Sentinel2A /\ s_items[2].datetime.day = 29
    /\ Containing(s_items, s_latitude, s_longitude) = {1, 2}
    /\ ReturnedScene.id[2] = 2

\* C6: the returned candidate's footprint strictly holds the point, a
\* candidate with the point on one of its four edges is never returned,
\* and when every candidate is excluded the result is the absent one.
C6_ReturnedFootprintHoldsPoint ==
    s_pc = "done" =>
        /\ s_result.raised = "" =>
              \/ SelectReturnedNoMatch
              \/ /\ SelectReturnedItem
                 /\ ReturnedScene \in {s_items[k] : k \in 1..Len(s_items)}
                 /\ StrictlyInside(ReturnedScene, s_latitude, s_longitude)
        /\ (s_items /= <<>> /\ Containing(s_items, s_latitude, s_longitude) = {})
              => SelectReturnedNoMatch

\* the point lies on the southern edge of the tile of the first candidate,
\* a Sentinel-2 scene of the sample date; the wider Landsat scene is returned
C6_Witness ==
    /\ SelectReturnedItem
    /\ Len(s_items) = 2
    /\ s_items[1].bbox = TileBox /\ s_items[1].platform = Platform_Sentinel2A
    /\ s_items[1].datetime.day = 31
    /\ s_latitude = TileBox[2]
    /\ s_items[2].bbox = SceneBox /\ s_items[2].platform = Platform_landsat8
    /\ ReturnedScene.id[2] = 2

\* C7: when several surviving candidates share the smallest time distance,
\* the first of them in the input list is returned.  (Stated for lists none
\* of whose survivors was acquired after the target date.)
C7_TieReturnsFirstInInput ==
    LET surv == Survivors(s_items, s_latitude, s_longitude)
        dist(k) == DayDistance(s_items[k].datetime, CivilOf(s_date))
        closest == {k \in surv : \A j \in surv : dist(k) <= dist(j)}
    IN  (/\ SelectReturnedItem
         /\ \A k \in surv : ~IsAfter(s_items[k].datetime, CivilOf(s_date))
         /\ Cardinality(closest) >= 2)
            => \A k \in closest : ReturnedScene.id[2] <= k

=============================================================================
